---- MODULE Spec2Model ----
(***************************************************************************)
(* scripts/update-appicon-contents.py: the command reads                   *)
(* <appicon_dir>/Contents.json, sets the filename of the image entries     *)
(* whose icon file exists in <appicon_dir>, and writes the manifest back.  *)
(*                                                                         *)
(* The model follows one invocation of the command statement by statement  *)
(* (argument handling, existence test, json.load, the for loop, the        *)
(* open/dump/newline of the write) and lets the command be invoked again   *)
(* on the directory it left behind, any number of times.                   *)
(***************************************************************************)
EXTENDS Integers, Sequences, FiniteSets, TLC

VARIABLES
    file,         \* <appicon_dir>/Contents.json as it is on disk
    icon_files,   \* names of the other files present in <appicon_dir>
    pc,           \* position of the running command ("idle": no process)
    icons_dir,    \* second parameter of update_contents_json
    contents,     \* the parsed manifest held in memory (line 29)
    idx,          \* position of the for loop of line 47 (1-based)
    success,      \* value returned by update_contents_json
    status,       \* how the last process ended: exit code and exception
    orig,         \* history: Contents.json when the current run started
    prev,         \* history: outcome of the run before the current one
    io            \* history: opens of Contents.json by the current run

vars == <<file, icon_files, pc, icons_dir, contents, idx, success, status,
          orig, prev, io>>

----------------------------------------------------------------------------
(* Bounds of the model *)

\* longest images list of an initial manifest
MaxImages == 2

----------------------------------------------------------------------------
(* Python and JSON values *)

\* Python's None (also what json.load gives for null)
None == "None"
\* Python's True and False
True == "True"
False == "False"
\* marks a key that a JSON object does not have
NoKey == "<no key>"

\* A string that the code takes apart is a sequence of characters.
s16x16 == <<"1", "6", "x", "1", "6">>
s32x32 == <<"3", "2", "x", "3", "2">>
s16x32 == <<"1", "6", "x", "3", "2">>
s1024x1024 == <<"1", "0", "2", "4", "x", "1", "0", "2", "4">>

\* A JSON value of the size field: a string, a number or no key at all.
Str(s) == [t |-> "str", v |-> s]
Num(s) == [t |-> "num", v |-> s]
NoSize == [t |-> "nokey", v |-> <<>>]

\* str.split("x")[0]: the text before the first "x", the whole text if none
\* variant: the size is not split
SplitX0Whole(s) == s
SplitX0(s) ==
    LET xs == {i \in 1..Len(s) : s[i] = "x"}
    IN  IF xs = {} THEN s
        ELSE SubSeq(s, 1, (CHOOSE i \in xs : \A j \in xs : i <= j) - 1)

\* icon_map, lines 32-44
icon_map ==
    (<< <<"1", "6">>, "1x" >> :> "icon_16x16.png") @@
    (<< <<"1", "6">>, "2x" >> :> "icon_16x16@2x.png") @@
    (<< <<"3", "2">>, "1x" >> :> "icon_32x32.png") @@
    (<< <<"3", "2">>, "2x" >> :> "icon_32x32@2x.png") @@
    (<< <<"1", "2", "8">>, "1x" >> :> "icon_128x128.png") @@
    (<< <<"1", "2", "8">>, "2x" >> :> "icon_128x128@2x.png") @@
    (<< <<"2", "5", "6">>, "1x" >> :> "icon_256x256.png") @@
    (<< <<"2", "5", "6">>, "2x" >> :> "icon_256x256@2x.png") @@
    (<< <<"5", "1", "2">>, "1x" >> :> "icon_512x512.png") @@
    (<< <<"5", "1", "2">>, "2x" >> :> "icon_512x512@2x.png") @@
    (<< <<"1", "0", "2", "4">>, None >> :> "AppIcon_1024x1024.png")

IconNames == {icon_map[k] : k \in DOMAIN icon_map}

----------------------------------------------------------------------------
(* The manifest *)

\* An element of the images list. py is the Python type json.load gave it;
\* a key the object does not have holds NoKey (NoSize for size).
Image(idiom, size, scale, filename) ==
    [py |-> "dict", idiom |-> idiom, size |-> size, scale |-> scale,
     filename |-> filename, extra |-> "extra"]
\* an element that is not an object (a string, or a character of one)
StrItem ==
    [py |-> "str", idiom |-> NoKey, size |-> NoSize, scale |-> NoKey,
     filename |-> NoKey, extra |-> NoKey]

\* The value of the top-level images key: t is its JSON type ("nokey" when
\* the key is missing), v what iterating over it yields.
Images(t, v) == [t |-> t, v |-> v]

\* the other top-level keys of the manifest
Info == [author |-> "xcode", version |-> "1"]
NoInfo == [author |-> NoKey, version |-> NoKey]

\* A parsed JSON document; top is the Python type of the top-level value.
Doc(top, images, info) == [top |-> top, images |-> images, info |-> info]
NoDoc == Doc("none", Images("nokey", <<>>), NoInfo)

\* Contents.json on disk: fmt is the state of its text,
\*   "absent"    no such file
\*   "malformed" text that is not JSON
\*   "raw"       JSON in some other layout than json.dump(indent=2) + "\n"
\*   "empty"     zero bytes (just opened with mode 'w')
\*   "partial"   a proper prefix of the text json.dump produces
\*   "nonl"      the whole text of json.dump, the final newline missing
\*   "indent2"   the text of json.dump(indent=2) followed by "\n"
File(fmt, doc) == [fmt |-> fmt, doc |-> doc]

\* json.load, line 29: the document of a well-formed text
Parses(f) == f.fmt \in {"raw", "nonl", "indent2"}
json_load(f) == f.doc

\* json.dump(contents, f, indent=2), line 65: the text of the document
\* variant: only the images key is written
json_dump_images_only(doc) == File("nonl", [doc EXCEPT !.info = NoInfo])
json_dump(doc) == File("nonl", doc)

\* the text "\n" of line 66
Newline == File("newline", NoDoc)

\* f.write(text) on a file opened for writing: text goes after what the
\* file holds
Written(f, text) ==
    IF text.fmt = "newline"
    THEN IF f.fmt = "nonl" THEN File("indent2", f.doc)
         ELSE File("malformed", NoDoc)
    ELSE IF f.fmt = "empty" THEN text
    ELSE File("malformed", NoDoc)

----------------------------------------------------------------------------
(* The directories *)

\* sys.argv[1]
appicon_dir == "AppIcon.appiconset"
\* the directory a second argument names; it holds every icon
an_icons_dir == "icons"
IconsDirArgs == {None, an_icons_dir}

\* Path(dir) / name .exists()
PathExists(dir, name) ==
    IF dir = appicon_dir
    THEN IF name = "Contents.json" THEN file.fmt # "absent"
         ELSE name \in icon_files
    ELSE dir = an_icons_dir /\ name \in IconNames

----------------------------------------------------------------------------
(* The body of the for loop, lines 48-62 *)

\* image.get("size", ""), image.get("scale"), image.get("idiom", "")
GetSize(image) == IF image.size.t = "nokey" THEN Str(<<>>) ELSE image.size
GetScale(image) == IF image.scale = NoKey THEN None ELSE image.scale
GetIdiom(image) == IF image.idiom = NoKey THEN "" ELSE image.idiom

\* the body raises AttributeError: image has no get (line 48), or size has
\* no split (line 53)
ImageRaises(image) ==
    \/ image.py # "dict"
    \/ GetIdiom(image) = "mac" /\ GetSize(image).t # "str"

\* lines 56 and 61: the directory the icon is looked for in, Path(appicon_dir)
\* variant: the icon is looked for in icons_dir when one is given
IconDirPrefersIconsDir(adir, idir) == IF idir = None THEN adir ELSE idir
IconDir(adir, idir) == adir

\* line 58: idiom == "universal" or idiom == "ios"
\* variant: universal is forgotten
IsIosOnly(idiom) == idiom = "ios"
IsUniversalOrIos(idiom) == idiom = "universal" \/ idiom = "ios"

\* the filename the body assigns to image["filename"], NoKey if it assigns
\* nothing
Assigned(image, adir, idir) ==
    LET size == GetSize(image)
        scale == GetScale(image)
        idiom == GetIdiom(image)
    IN  IF idiom = "mac"
        THEN LET key == <<SplitX0(size.v), scale>>
             IN  IF key \in DOMAIN icon_map
                    /\ PathExists(IconDir(adir, idir), icon_map[key])
                 THEN icon_map[key]
                 ELSE NoKey
        ELSE IF IsUniversalOrIos(idiom)
        THEN LET key == << <<"1", "0", "2", "4">>, None >>
             IN  IF size.t = "str" /\ size.v = s1024x1024
                    /\ PathExists(IconDir(adir, idir), icon_map[key])
                 THEN icon_map[key]
                 ELSE NoKey
        ELSE NoKey

\* image after one pass of the body
\* variant: an entry that has a filename keeps it
UpdatedImageIfUnnamed(image, adir, idir) ==
    LET fn == Assigned(image, adir, idir)
    IN  IF fn = NoKey \/ image.filename # NoKey THEN image
        ELSE [image EXCEPT !.filename = fn]
\* variant: the filename is removed when nothing is assigned
UpdatedImageClears(image, adir, idir) ==
    [image EXCEPT !.filename = Assigned(image, adir, idir)]
UpdatedImage(image, adir, idir) ==
    LET fn == Assigned(image, adir, idir)
    IN  IF fn = NoKey THEN image ELSE [image EXCEPT !.filename = fn]

----------------------------------------------------------------------------
(* The process *)

\* how a process ended: its exit code and the exception that ended it
\* ("none": it ran to sys.exit; "usage": it stopped at line 75)
Status(exit, exc) == [exit |-> exit, exc |-> exc]
NoStatus == Status(-1, "none")
NoIO == [r |-> 0, w |-> 0]

\* The outcome of the last run, for the run that follows it. A run that
\* was given no directory, or that the filesystem stopped, leaves nothing
\* to compare the next run with.
NoPrev == [valid |-> FALSE, file |-> File("absent", NoDoc), status |-> NoStatus]
Outcome ==
    IF status = NoStatus \/ status.exc \in {"usage", "OSError"}
    THEN NoPrev
    ELSE [valid |-> TRUE, file |-> file, status |-> status]

\* The process ends: its locals are gone.
Ends(exit, exc) ==
    /\ pc' = "idle"
    /\ status' = Status(exit, exc)
    /\ icons_dir' = None
    /\ contents' = NoDoc
    /\ idx' = 0
    /\ success' = None

\* lines 73-75: no directory argument; print the usage and sys.exit(1)
MainUsage ==
    /\ pc = "idle"
    /\ orig' = file
    /\ prev' = Outcome
    /\ io' = NoIO
    /\ pc' = "idle"
    /\ status' = Status(1, "usage")
    /\ UNCHANGED <<file, icon_files, icons_dir, contents, idx, success>>

\* lines 77-80: the call update_contents_json(appicon_dir, icons_dir)
MainCall ==
    /\ pc = "idle"
    /\ \E d \in IconsDirArgs : icons_dir' = d
    /\ orig' = file
    /\ prev' = Outcome
    /\ io' = NoIO
    /\ status' = NoStatus
    /\ pc' = "exists"
    /\ UNCHANGED <<file, icon_files, contents, idx, success>>

\* lines 23-26: Contents.json is not there; return False
ContentsMissing(idir) ==
    /\ pc = "exists"
    /\ ~PathExists(appicon_dir, "Contents.json")
    /\ success' = False
    /\ pc' = "exit"
    /\ UNCHANGED <<file, icon_files, icons_dir, contents, idx, status, orig,
                   prev, io>>

\* lines 28-29: open for reading and json.load
LoadContents(idir) ==
    /\ pc = "exists"
    /\ PathExists(appicon_dir, "Contents.json")
    /\ Parses(file)
    /\ contents' = json_load(file)
    /\ io' = [io EXCEPT !.r = @ + 1]
    /\ pc' = "for"
    /\ UNCHANGED <<file, icon_files, icons_dir, idx, success, status, orig,
                   prev>>

\* line 29: json.load raises JSONDecodeError, which nothing catches
LoadRaises(idir) ==
    /\ pc = "exists"
    /\ PathExists(appicon_dir, "Contents.json")
    /\ ~Parses(file)
    /\ io' = [io EXCEPT !.r = @ + 1]
    /\ Ends(1, "JSONDecodeError")
    /\ UNCHANGED <<file, icon_files, orig, prev>>

\* line 47: what contents.get("images", []) and the for statement raise
\* variant: contents["images"] instead of contents.get("images", [])
ForRaisesKeyError(doc) ==
    IF doc.top # "dict" THEN "AttributeError"
    ELSE IF doc.images.t = "nokey" THEN "KeyError"
    ELSE IF doc.images.t \in {"null", "num"} THEN "TypeError"
    ELSE "none"
ForRaises(doc) ==
    IF doc.top # "dict" THEN "AttributeError"
    ELSE IF doc.images.t \in {"null", "num"} THEN "TypeError"
    ELSE "none"

\* line 47: the elements the for statement iterates over
Items(doc) == doc.images.v

\* line 47: the for statement starts
ForImages(idir) ==
    /\ pc = "for"
    /\ ForRaises(contents) = "none"
    /\ idx' = 1
    /\ pc' = "loop"
    /\ UNCHANGED <<file, icon_files, icons_dir, contents, success, status,
                   orig, prev, io>>

\* line 47: the for statement raises, which nothing catches
ForImagesRaises(idir) ==
    /\ pc = "for"
    /\ ForRaises(contents) # "none"
    /\ Ends(1, ForRaises(contents))
    /\ UNCHANGED <<file, icon_files, orig, prev, io>>

\* lines 48-62: one pass of the loop body, on element idx
UpdateImage(idir) ==
    /\ pc = "loop"
    /\ idx <= Len(Items(contents))
    /\ ~ImageRaises(Items(contents)[idx])
    /\ contents' = [contents EXCEPT !.images.v[idx] =
                       UpdatedImage(@, appicon_dir, idir)]
    /\ idx' = idx + 1
    /\ UNCHANGED <<file, icon_files, pc, icons_dir, success, status, orig,
                   prev, io>>

\* lines 48-53: the loop body raises on element idx, which nothing catches
UpdateImageRaises(idir) ==
    /\ pc = "loop"
    /\ idx <= Len(Items(contents))
    /\ ImageRaises(Items(contents)[idx])
    /\ Ends(1, "AttributeError")
    /\ UNCHANGED <<file, icon_files, orig, prev, io>>

\* line 64: the loop is over; open(contents_json, 'w') truncates the file
\* variant: mode 'a', the file keeps what it holds
OpenAppend(idir) ==
    /\ pc = "loop"
    /\ idx > Len(Items(contents))
    /\ io' = [io EXCEPT !.w = @ + 1]
    /\ pc' = "dump"
    /\ UNCHANGED <<file, icon_files, icons_dir, contents, idx, success, status,
                   orig, prev>>
OpenWrite(idir) ==
    /\ pc = "loop"
    /\ idx > Len(Items(contents))
    /\ file' = File("empty", NoDoc)
    /\ io' = [io EXCEPT !.w = @ + 1]
    /\ pc' = "dump"
    /\ UNCHANGED <<icon_files, icons_dir, contents, idx, success, status,
                   orig, prev>>

\* line 64: open raises OSError (no permission); the file is as it was
OpenWriteRaises(idir) ==
    /\ pc = "loop"
    /\ idx > Len(Items(contents))
    /\ Ends(1, "OSError")
    /\ UNCHANGED <<file, icon_files, orig, prev, io>>

\* line 65: json.dump writes the manifest
Dump(idir) ==
    /\ pc = "dump"
    /\ file' = Written(file, json_dump(contents))
    /\ pc' = "newline"
    /\ UNCHANGED <<icon_files, icons_dir, contents, idx, success, status,
                   orig, prev, io>>

\* line 65: a write raises OSError (disk full); what was written stays
DumpRaises(idir) ==
    /\ pc = "dump"
    /\ file' \in {File("empty", NoDoc), File("partial", NoDoc)}
    /\ Ends(1, "OSError")
    /\ UNCHANGED <<icon_files, orig, prev, io>>

\* lines 66-69: the final newline, the file is closed, return True
WriteNewline(idir) ==
    /\ pc = "newline"
    /\ file' = Written(file, Newline)
    /\ success' = True
    /\ pc' = "exit"
    /\ UNCHANGED <<icon_files, icons_dir, contents, idx, status, orig, prev,
                   io>>

\* line 81: sys.exit(0 if success else 1)
\* variant: sys.exit(0) whatever was returned
MainExitZero ==
    /\ pc = "exit"
    /\ Ends(0, "none")
    /\ UNCHANGED <<file, icon_files, orig, prev, io>>
MainExit ==
    /\ pc = "exit"
    /\ Ends(IF success = True THEN 0 ELSE 1, "none")
    /\ UNCHANGED <<file, icon_files, orig, prev, io>>

\* update_contents_json(appicon_dir, idir), lines 23-69: one step of the body
\* of the function called with idir as its second argument
update_contents_json(idir) ==
    \/ ContentsMissing(idir)
    \/ LoadContents(idir)
    \/ LoadRaises(idir)
    \/ ForImages(idir)
    \/ ForImagesRaises(idir)
    \/ UpdateImage(idir)
    \/ UpdateImageRaises(idir)
    \/ OpenWrite(idir)
    \/ OpenWriteRaises(idir)
    \/ Dump(idir)
    \/ DumpRaises(idir)
    \/ WriteNewline(idir)

Next ==
    \/ MainUsage
    \/ MainCall
    \/ ContentsMissing(icons_dir)
    \/ LoadContents(icons_dir)
    \/ LoadRaises(icons_dir)
    \/ ForImages(icons_dir)
    \/ ForImagesRaises(icons_dir)
    \/ UpdateImage(icons_dir)
    \/ UpdateImageRaises(icons_dir)
    \/ OpenWrite(icons_dir)
    \/ OpenWriteRaises(icons_dir)
    \/ Dump(icons_dir)
    \/ DumpRaises(icons_dir)
    \/ WriteNewline(icons_dir)
    \/ MainExit

----------------------------------------------------------------------------
(* The directories the command is started on *)

\* every sequence over S of length at most n
SeqsUpTo(S, n) == UNION {[1..k -> S] : k \in 0..n}

\* Contents.json files that are no well-formed manifest, or none with a list
\* of objects under images
OddFiles ==
    {File("absent", NoDoc), File("malformed", NoDoc),
     File("raw", Doc("list", Images("nokey", <<>>), NoInfo))}
    \cup {File("raw", Doc("dict", im, Info)) :
            im \in {Images("nokey", <<>>), Images("null", <<>>),
                    Images("num", <<>>), Images("str", <<>>),
                    Images("str", <<StrItem, StrItem>>),
                    Images("obj", <<>>), Images("obj", <<StrItem>>),
                    Images("list", <<StrItem>>)}}

\* manifests whose images list holds objects of U
Manifests(U) ==
    {File("raw", Doc("dict", Images("list", v), Info)) :
        v \in SeqsUpTo(U, MaxImages)}

InitOn(U, always, maybe) ==
    /\ file \in OddFiles \cup Manifests(U)
    /\ icon_files \in {always \cup m : m \in SUBSET maybe}
    /\ pc = "idle"
    /\ icons_dir = None
    /\ contents = NoDoc
    /\ idx = 0
    /\ success = None
    /\ status = NoStatus
    /\ orig = file
    /\ prev = NoPrev
    /\ io = NoIO

\* entries of every idiom, with a size that is no string among them
MixedImages ==
    {Image(i, Str(s), sc, fn) :
        i \in {"mac", "ios"}, s \in {s32x32, s1024x1024},
        sc \in {NoKey, "2x"}, fn \in {NoKey, "old.png"}}
    \cup {Image("tv", Str(s32x32), "2x", "old.png"),
          Image("mac", Num(<<"3", "2">>), "2x", NoKey),
          Image(NoKey, NoSize, NoKey, NoKey)}

\* entries of idiom mac
MacImages ==
    {Image("mac", Str(s), sc, fn) :
        s \in {s16x16, s16x32, s1024x1024},
        sc \in {NoKey, "1x", "2x"}, fn \in {NoKey, "old.png"}}

\* entries of the other idioms
IdiomImages ==
    {Image(i, Str(s), sc, fn) :
        i \in {"ios", "universal", "tv"}, s \in {s32x32, s1024x1024},
        sc \in {NoKey, "2x"}, fn \in {NoKey, "old.png"}}

Init ==
    InitOn(MixedImages, {}, {"icon_32x32@2x.png", "AppIcon_1024x1024.png"})
InitMac ==
    InitOn(MacImages, {}, {"icon_16x16.png", "AppIcon_1024x1024.png"})
InitIdiom ==
    InitOn(IdiomImages, {"icon_32x32@2x.png"}, {"AppIcon_1024x1024.png"})

Spec == Init /\ [][Next]_vars
SpecMac == InitMac /\ [][Next]_vars
SpecIdiom == InitIdiom /\ [][Next]_vars

----------------------------------------------------------------------------
(* Properties *)

\* the text of s before its first "x"
RECURSIVE BeforeX(_)
BeforeX(s) ==
    IF s = <<>> \/ Head(s) = "x" THEN <<>> ELSE <<Head(s)>> \o BeforeX(Tail(s))

\* the last run called update_contents_json and has ended
Ended == pc = "idle" /\ status # NoStatus /\ status.exc # "usage"
\* the last run returned True and exited with 0
Succeeded == pc = "idle" /\ status = Status(0, "none")

\* the images the run read, and the images Contents.json holds now
Before == orig.doc.images.v
After == file.doc.images.v

\* scale as the lookup sees it
ScaleOf(e) == IF e.scale = NoKey THEN None ELSE e.scale

\* the table filename the spec looks up for entry e, NoKey if none
TableName(e) ==
    IF e.py = "dict" /\ e.idiom = "mac" /\ e.size.t = "str"
       /\ <<BeforeX(e.size.v), ScaleOf(e)>> \in DOMAIN icon_map
    THEN icon_map[<<BeforeX(e.size.v), ScaleOf(e)>>]
    ELSE IF e.py = "dict" /\ e.idiom \in {"ios", "universal"}
            /\ e.size = Str(s1024x1024)
    THEN "AppIcon_1024x1024.png"
    ELSE NoKey

\* C1: after a run that succeeded, every entry of idiom mac whose (size
\* prefix, scale) is a key of icon_map and whose table filename is a file of
\* the manifest directory has exactly that filename, whatever it had before.
C1_MacFilenameSet ==
    Succeeded =>
        \A i \in 1..Len(Before) :
            LET e == Before[i]
                k == <<BeforeX(e.size.v), ScaleOf(e)>>
            IN  (e.py = "dict" /\ e.idiom = "mac" /\ e.size.t = "str"
                 /\ k \in DOMAIN icon_map /\ icon_map[k] \in icon_files)
                => After[i].filename = icon_map[k]

\* a mac 32x32 2x entry named old.png was renamed icon_32x32@2x.png
C1_Witness ==
    /\ Succeeded
    /\ "icon_32x32@2x.png" \in icon_files
    /\ \E i \in 1..Len(Before) :
          /\ Before[i] = Image("mac", Str(s32x32), "2x", "old.png")
          /\ After[i].filename = "icon_32x32@2x.png"

\* C2: an entry that matches no table key, or whose table filename is no
\* file of the manifest directory, is never modified: it is the same in the
\* manifest in memory at every point of the run, and in Contents.json after
\* a run that succeeded.
C2_UnmatchedUntouched ==
    /\ contents # NoDoc =>
          \A i \in 1..Len(Before) :
              (TableName(Before[i]) = NoKey
               \/ TableName(Before[i]) \notin icon_files)
              => contents.images.v[i] = Before[i]
    /\ Succeeded =>
          \A i \in 1..Len(Before) :
              (TableName(Before[i]) = NoKey
               \/ TableName(Before[i]) \notin icon_files)
              => After[i] = Before[i]

\* a run succeeded on a manifest with an entry named old.png whose icon is
\* missing and an entry without filename that matches no key
C2_Witness ==
    /\ Succeeded
    /\ "icon_32x32@2x.png" \notin icon_files
    /\ Len(Before) = 2
    /\ Before[1] = Image("mac", Str(s32x32), "2x", "old.png")
    /\ After[1].filename = "old.png"
    /\ Before[2] = Image("ios", Str(s32x32), "2x", NoKey)
    /\ After[2].filename = NoKey

\* C3: after a run that succeeded, an ios or universal entry of size
\* 1024x1024 is named AppIcon_1024x1024.png when that file is in the
\* manifest directory, and an ios or universal entry of any other size is
\* as it was.
C3_IosUniversal ==
    Succeeded =>
        \A i \in 1..Len(Before) :
            LET e == Before[i]
            IN  (e.py = "dict" /\ e.idiom \in {"ios", "universal"}) =>
                    /\ (e.size = Str(s1024x1024)
                        /\ "AppIcon_1024x1024.png" \in icon_files)
                       => After[i].filename = "AppIcon_1024x1024.png"
                    /\ e.size # Str(s1024x1024) => After[i] = e

\* a universal 1024x1024 entry was named, next to an ios 32x32 2x entry left
\* alone though icon_32x32@2x.png is there
C3_Witness ==
    /\ Succeeded
    /\ {"AppIcon_1024x1024.png", "icon_32x32@2x.png"} \subseteq icon_files
    /\ Len(Before) = 2
    /\ Before[1] = Image("universal", Str(s1024x1024), "2x", "old.png")
    /\ After[1].filename = "AppIcon_1024x1024.png"
    /\ Before[2] = Image("ios", Str(s32x32), "2x", NoKey)
    /\ After[2] = Before[2]

\* C4: a run that finds no Contents.json changes nothing in the manifest
\* directory and opens no file; update_contents_json returns False and the
\* process exits with status 1, no exception raised.
C4_MissingManifest ==
    [][(orig.fmt = "absent" /\ pc # "idle") =>
          /\ file' = file
          /\ icon_files' = icon_files
          /\ io' = NoIO
          /\ pc' = "exit" => success' = False
          /\ pc' = "idle" => status' = Status(1, "none")]_vars

\* a run on a directory without Contents.json has ended
C4_Witness ==
    /\ Ended
    /\ orig.fmt = "absent"
    /\ file.fmt = "absent"
    /\ status = Status(1, "none")

\* C5: when the command is run again on the directory a run left behind
\* (neither run stopped by the filesystem), Contents.json and the way the
\* process ends are what they were after the run before.
C5_Idempotent ==
    (Ended /\ prev.valid /\ status.exc # "OSError") =>
        /\ file = prev.file
        /\ status = prev.status

\* a second run succeeded on a manifest whose first entry the first run
\* had named
C5_Witness ==
    /\ Succeeded
    /\ prev.valid
    /\ prev.file.fmt = "indent2"
    /\ Len(After) = 2
    /\ After[1].filename = "icon_32x32@2x.png"
    /\ After[2].filename = "old.png"

\* C6: after a run that succeeded Contents.json differs from what was read
\* at most in the filename of image entries: same top-level keys, same
\* number of entries in the same order with every other field as it was;
\* without any mac, universal or ios entry the document is the same.
C6_OnlyFilenamesChange ==
    Succeeded =>
        /\ file.doc.top = orig.doc.top
        /\ file.doc.info = orig.doc.info
        /\ file.doc.images.t = orig.doc.images.t
        /\ Len(After) = Len(Before)
        /\ \A i \in 1..Len(Before) :
              [After[i] EXCEPT !.filename = Before[i].filename] = Before[i]
        /\ (\A i \in 1..Len(Before) :
               Before[i].idiom \notin {"mac", "universal", "ios"})
           => file.doc = orig.doc

\* a run rewrote a two-entry manifest and renamed its second entry only
C6_Witness ==
    /\ Succeeded
    /\ orig.fmt = "raw"
    /\ Len(Before) = 2
    /\ Before[1] = Image("tv", Str(s32x32), "2x", "old.png")
    /\ Before[2] = Image("ios", Str(s1024x1024), NoKey, NoKey)
    /\ After[1] = Before[1]
    /\ After[2].filename = "AppIcon_1024x1024.png"

\* the manifest the run read is an object whose images is not a list
NonListImages ==
    /\ Ended
    /\ status.exc # "OSError"
    /\ Parses(orig)
    /\ orig.doc.top = "dict"
    /\ orig.doc.images.t # "list"

\* C7 as stated: a manifest without images key, or with an images value that
\* is not a list, is rewritten unchanged and the run returns True.
C7_NonListIsEmpty ==
    NonListImages =>
        /\ status = Status(0, "none")
        /\ file = File("indent2", orig.doc)

\* C7 amended: a manifest without images key, or whose images value is an
\* empty string or an empty object, is rewritten unchanged and the run
\* returns True; any other images value that is not a list makes the run
\* raise TypeError or AttributeError before the write, Contents.json as it
\* was.
C7_AbsentIsEmpty ==
    NonListImages =>
        IF \/ orig.doc.images.t = "nokey"
           \/ orig.doc.images.t \in {"str", "obj"} /\ Before = <<>>
        THEN /\ status = Status(0, "none")
             /\ file = File("indent2", orig.doc)
        ELSE /\ status.exit = 1
             /\ status.exc \in {"TypeError", "AttributeError"}
             /\ file = orig

\* a manifest without images key was rewritten
C7_Witness ==
    /\ NonListImages
    /\ orig = File("raw", Doc("dict", Images("nokey", <<>>), Info))
    /\ file = File("indent2", orig.doc)
    /\ status = Status(0, "none")

\* C8: every step of update_contents_json is the step it takes with any other
\* value of icons_dir: neither Contents.json nor the value returned depends
\* on it.
C8_IconsDirIgnored ==
    [][pc \notin {"idle", "exit"} =>
          \A d \in IconsDirArgs : update_contents_json(d)]_vars

\* called with an icons directory that holds icon_32x32@2x.png, the loop has
\* left a mac 32x32 2x entry unnamed because the manifest directory does not
\* hold it
C8_Witness ==
    /\ pc = "loop"
    /\ icons_dir = an_icons_dir
    /\ PathExists(an_icons_dir, "icon_32x32@2x.png")
    /\ ~PathExists(appicon_dir, "icon_32x32@2x.png")
    /\ idx = 2
    /\ contents.images.v[1] = Image("mac", Str(s32x32), "2x", NoKey)

\* C9 as stated: a run opens Contents.json once for reading and at most once
\* for writing, and at every point the file holds either what it held when
\* the run started or the complete new manifest.
C9_NoPartialWrite ==
    /\ io.r <= 1
    /\ io.w <= 1
    /\ \/ file = orig
       \/ file.fmt = "indent2" /\ io.w = 1

\* C10: after a run that succeeded, a mac entry of size 1024x1024 without
\* scale is named AppIcon_1024x1024.png when that file is there, one with
\* scale 1x or 2x is as it was, one of size 16x32 and scale 1x is named
\* icon_16x16.png when that file is there; two mac entries with the same
\* text before the first "x" and the same scale are treated alike.
C10_MacPrefixLookup ==
    Succeeded =>
        \A i \in 1..Len(Before) :
            LET e == Before[i]
            IN  (e.py = "dict" /\ e.idiom = "mac" /\ e.size.t = "str") =>
                  /\ (e.size.v = s1024x1024 /\ e.scale = NoKey
                      /\ "AppIcon_1024x1024.png" \in icon_files)
                     => After[i].filename = "AppIcon_1024x1024.png"
                  /\ (e.size.v = s1024x1024 /\ e.scale \in {"1x", "2x"})
                     => After[i] = e
                  /\ (e.size.v = s16x32 /\ e.scale = "1x"
                      /\ "icon_16x16.png" \in icon_files)
                     => After[i].filename = "icon_16x16.png"
                  /\ \A j \in 1..Len(Before) :
                        (/\ Before[j].idiom = "mac"
                         /\ BeforeX(Before[j].size.v) = BeforeX(e.size.v)
                         /\ Before[j].scale = e.scale)
                        => /\ After[j] = Before[j] <=> After[i] = e
                           /\ After[i] # e
                              => After[j].filename = After[i].filename

\* a 16x32 1x entry and a 1024x1024 entry without scale were named
C10_Witness ==
    /\ Succeeded
    /\ Len(Before) = 2
    /\ Before[1] = Image("mac", Str(s16x32), "1x", NoKey)
    /\ After[1].filename = "icon_16x16.png"
    /\ Before[2] = Image("mac", Str(s1024x1024), NoKey, "old.png")
    /\ After[2].filename = "AppIcon_1024x1024.png"

====
